---- MODULE Spec2Model ----
(***************************************************************************)
(* use_cycle_list (src/src/use_cycle_list.rs): a reactive controller that  *)
(* cycles through a list.  The state is the list signal, the state signal, *)
(* the options, and the list watcher's scheduling flag; `index` is a       *)
(* derived signal and is modelled as an operator of the state.             *)
(***************************************************************************)
EXTENDS Integers, Sequences, FiniteSets, TLC

\* ---------------------------------------------------------------- bounds
\* longest list the model builds
MaxLen == 3
\* most list changes between two runs of the watcher
MaxChanges == 2
\* width in bits of usize and i64 in the model (64 in the program)
IntBits == 16

\* ---------------------------------------------------------------- values
Values == {"Dog", "Cat", "Lizard"}
\* no value: the state signal does not exist (construction panicked), or a
\* call returned nothing
NoValue == "-"

\* Option<usize>: None is the empty sequence, Some(i) is <<i>>
None == <<>>
Some(i) == <<i>>

Pow2(k) == 2 ^ k
I64Max == Pow2(IntBits - 1) - 1
I64Min == 0 - Pow2(IntBits - 1)
UsizeMax == Pow2(IntBits) - 1

\* `x as i64` for a usize x: two's complement reinterpretation
AsI64(x) == IF x > I64Max THEN x - Pow2(IntBits) ELSE x
\* `x as usize` for an i64 x
AsUsize(x) == IF x < 0 THEN x + Pow2(IntBits) ELSE x
\* i64 arithmetic of a release build: the sum wraps around
WrapI64(x) == ((x - I64Min) % Pow2(IntBits)) + I64Min
\* Rust's % on i64: the remainder has the sign of the dividend
Rem(a, b) == IF a >= 0 THEN a % b ELSE 0 - ((0 - a) % b)

\* all lists of at most MaxLen values
Lists == UNION {[1..n -> Values] : n \in 0..MaxLen}

\* the inputs the model draws
Indices == (0..(2 * MaxLen + 1)) \cup {I64Max, UsizeMax}
Deltas == ((0 - (MaxLen + 1))..(MaxLen + 1)) \cup {I64Min, 0 - I64Max, I64Max}
FallbackIndices == {0, 1, MaxLen, UsizeMax}
Resolvers == {"position", "none"}

VARIABLES
    list,            \* the list signal's content (0-based in the code, 1-based here)
    state,           \* the state signal
    fallback_index,  \* options.fallback_index
    get_position,    \* options.get_position: which resolver
    pending,         \* the list watcher is scheduled and has not run yet
    pc,              \* "run", or "panic" after a fatal error
    ret,             \* the value the last call returned
    lastOp,          \* the last call
    lastArg,         \* its numeric argument
    old_index,       \* history: Some(index before the list change) until a caller's next call
    v0,              \* history: the state right after construction
    nexts,           \* history: calls of next() since construction, nothing else between
    given,           \* history: options.initial_value at construction
    origin,          \* history: the state before the first shift of a shift pair
    back,            \* history: the shift pair is complete
    seen,            \* history: every value the list has held
    by_caller,       \* history: the value of state was supplied by a caller
    unserved,        \* history: list changes since the watcher last ran
    served,          \* history: list changes the watcher run that was the last call served
    wrote            \* history: what a call wrote between a list change and the watcher's run

prog == <<list, state, fallback_index, get_position, pending, pc, ret, lastOp, lastArg, old_index>>
cycleHist == <<v0, nexts, given>>
pairHist == <<origin, back>>
valueHist == <<seen, by_caller>>
watchHist == <<unserved, served, wrote>>
vars == <<prog, cycleHist, pairHist, valueHist, watchHist>>

Range(l) == {l[i] : i \in 1..Len(l)}

\* ------------------------------------------------------ position resolvers
\* position, counting from one
position_one_based(value, l) ==
    LET hits == {i \in 1..Len(l) : l[i] = value}
    IN  IF hits = {} THEN None
        ELSE Some(CHOOSE i \in hits : \A j \in hits : i <= j)

\* position of the last match (rposition) instead of the first
position_last(value, l) ==
    LET hits == {i \in 1..Len(l) : l[i] = value}
    IN  IF hits = {} THEN None
        ELSE Some((CHOOSE i \in hits : \A j \in hits : i >= j) - 1)

\* the default resolver: list.iter().position(|v| v == value)
position(value, l) ==
    LET hits == {i \in 1..Len(l) : l[i] = value}
    IN  IF hits = {} THEN None
        ELSE Some((CHOOSE i \in hits : \A j \in hits : i <= j) - 1)

\* a custom resolver that never finds the value
position_none(value, l) == None

resolve(r, value, l) ==
    IF r = "position" THEN position(value, l) ELSE position_none(value, l)

\* index, with the list's length standing in for a value that is not found
index_of_len(value, l) ==
    LET p == resolve(get_position, value, l)
    IN  IF p # None THEN p[1] ELSE Len(l)

\* the derived signal `index`, over explicit arguments
index_of(value, l) ==
    LET p == resolve(get_position, value, l)
    IN  IF p # None THEN p[1] ELSE fallback_index

\* the derived signal `index` in the current state
index == index_of(state, list)

\* ------------------------------------------------------------ construction
\* get_initial_value, with a default value in place of the panic
get_initial_value_or_default(initial_value, l) ==
    IF initial_value # None THEN initial_value[1]
    ELSE IF Len(l) > 0 THEN l[1] ELSE "Dog"

\* get_initial_value: the supplied value, else the first element of the list
get_initial_value(initial_value, l) ==
    IF initial_value # None THEN initial_value[1]
    ELSE IF Len(l) > 0 THEN l[1] ELSE NoValue

\* UseCycleListOptions::default()
DefaultOptions ==
    [initial_value |-> None, fallback_index |-> 0, get_position |-> "position"]

AllOptions ==
    [initial_value : {None} \cup {Some(v) : v \in Values},
     fallback_index : FallbackIndices,
     get_position : Resolvers]

\* construction with a watcher that runs immediately (immediate = true)
use_cycle_list_with_options_immediate(l, options) ==
    /\ list = l
    /\ fallback_index = options.fallback_index
    /\ get_position = options.get_position
    /\ state = get_initial_value(options.initial_value, l)
    /\ pc = IF state = NoValue THEN "panic" ELSE "run"
    /\ pending = TRUE
    /\ ret = NoValue
    /\ lastArg = 0
    /\ old_index = None

\* the state after use_cycle_list_with_options(l, options) returns or panics
use_cycle_list_with_options(l, options) ==
    /\ list = l
    /\ fallback_index = options.fallback_index
    /\ get_position = options.get_position
    /\ state = get_initial_value(options.initial_value, l)
    /\ pc = IF state = NoValue THEN "panic" ELSE "run"
    /\ pending = FALSE
    /\ ret = NoValue
    /\ lastArg = 0
    /\ old_index = None

\* the state after use_cycle_list(l) returns or panics
use_cycle_list(l) == use_cycle_list_with_options(l, DefaultOptions)

Constructed ==
    \/ \E l \in Lists :
        /\ use_cycle_list(l)
        /\ lastOp = "use_cycle_list"
    \/ \E l \in Lists, options \in AllOptions :
        /\ use_cycle_list_with_options(l, options)
        /\ lastOp = "use_cycle_list_with_options"

Init ==
    /\ Constructed
    /\ v0 = NoValue
    /\ nexts = 0
    /\ given = None
    /\ origin = NoValue
    /\ back = FALSE
    /\ seen = {}
    /\ by_caller = FALSE
    /\ unserved = 0
    /\ served = 0
    /\ wrote = NoValue
\* --------------------------------------------------------------- operations
\* a fatal error: nothing is written
Fault ==
    /\ pc' = "panic"
    /\ ret' = NoValue
    /\ UNCHANGED state

\* the write of `set`: set_state.update(|v| *v = value), and the value returned
Write(value, returned) ==
    /\ state' = value
    /\ ret' = IF returned THEN value ELSE NoValue
    /\ pc' = "run"

\* set's index, clamped to the last position instead of wrapped
set_position_clamped(i, length) == IF i < length THEN i ELSE length - 1

\* the index `set` selects: i % length
set_position(i, length) == i % length

\* set, returning the current value of an empty list's controller instead of faulting
set_body_guarded(i, returned) ==
    IF Len(list) = 0
    THEN /\ pc' = "run"
         /\ ret' = IF returned THEN state ELSE NoValue
         /\ UNCHANGED state
    ELSE Write(list[set_position(i, Len(list)) + 1], returned)

\* the body of `set`: i % length faults on an empty list, before any write
set_body(i, returned) ==
    IF Len(list) = 0 THEN Fault
    ELSE Write(list[set_position(i, Len(list)) + 1], returned)

\* the sum `index as i64 + delta` leaves the i64 range
Overflows(cur, delta) ==
    LET i == AsI64(cur) + delta
    IN  i > I64Max \/ i < I64Min

\* shift's argument to `set`, without the `+ length` that makes it non-negative
shift_index_no_offset(cur, delta, length) ==
    AsUsize(Rem(WrapI64(AsI64(cur) + delta), length))

\* the argument `shift` hands to `set`: ((cur + delta) % length) + length
shift_index(cur, delta, length) ==
    AsUsize(Rem(WrapI64(AsI64(cur) + delta), length) + length)

\* shift, reading the index as it was before the list changed
shift_body_stale(delta, returned) ==
    LET cur == IF old_index # None THEN old_index[1] ELSE index
    IN  IF Len(list) = 0 THEN Fault
        ELSE \/ /\ Overflows(cur, delta)
                /\ Fault
             \/ set_body(shift_index(cur, delta, Len(list)), returned)

\* the body of `shift`; on overflow a debug build panics and a release build wraps
shift_body(delta, returned) ==
    IF Len(list) = 0 THEN Fault
    ELSE \/ /\ Overflows(index, delta)
            /\ Fault
         \/ set_body(shift_index(index, delta, Len(list)), returned)

\* set_state.set(v): the exposed direct setter
set_state(v) ==
    /\ pc = "run"
    /\ state' = v
    /\ ret' = NoValue
    /\ lastOp' = "set_state"
    /\ old_index' = None
    /\ lastArg' = 0
    /\ UNCHANGED <<list, fallback_index, get_position, pending, pc>>

\* set_index(i)
set(i) ==
    /\ pc = "run"
    /\ set_body(i, TRUE)
    /\ lastOp' = "set_index"
    /\ old_index' = None
    /\ lastArg' = i
    /\ UNCHANGED <<list, fallback_index, get_position, pending>>

shift(delta) ==
    /\ pc = "run"
    /\ shift_body(delta, TRUE)
    /\ lastOp' = "shift"
    /\ old_index' = None
    /\ lastArg' = delta
    /\ UNCHANGED <<list, fallback_index, get_position, pending>>

next ==
    /\ pc = "run"
    /\ shift_body(1, FALSE)
    /\ lastOp' = "next"
    /\ old_index' = None
    /\ lastArg' = 0
    /\ UNCHANGED <<list, fallback_index, get_position, pending>>

prev ==
    /\ pc = "run"
    /\ shift_body(0 - 1, FALSE)
    /\ lastOp' = "prev"
    /\ old_index' = None
    /\ lastArg' = 0
    /\ UNCHANGED <<list, fallback_index, get_position, pending>>

\* the owner of the list signal sets it: the watcher is scheduled, index is
\* derived from the new list from now on
list_set(l) ==
    /\ pc = "run"
    /\ list' = l
    /\ pending' = TRUE
    /\ ret' = NoValue
    /\ lastOp' = "list_set"
    /\ old_index' = Some(index)
    /\ lastArg' = 0
    /\ UNCHANGED <<state, fallback_index, get_position, pc>>

\* the watcher, setting the index the value had before the list changed
watch_old_index ==
    /\ pc = "run"
    /\ pending
    /\ pending' = FALSE
    /\ set_body(IF old_index # None THEN old_index[1] ELSE index, FALSE)
    /\ lastOp' = "watch"
    /\ old_index' = IF lastOp = "list_set" THEN old_index ELSE None
    /\ lastArg' = 0
    /\ UNCHANGED <<list, fallback_index, get_position>>

\* the watcher, leaving the state alone when the index is past the list's end
watch_checked ==
    /\ pc = "run"
    /\ pending
    /\ pending' = FALSE
    /\ IF index >= Len(list) /\ Len(list) > 0
       THEN UNCHANGED <<state, pc>> /\ ret' = NoValue
       ELSE set_body(index, FALSE)
    /\ lastOp' = "watch"
    /\ old_index' = IF lastOp = "list_set" THEN old_index ELSE None
    /\ lastArg' = 0
    /\ UNCHANGED <<list, fallback_index, get_position>>

\* the watcher, scheduled again by its own write to state
watch_retriggered ==
    /\ pc = "run"
    /\ pending
    /\ pending' = TRUE
    /\ set_body(index, FALSE)
    /\ lastOp' = "watch"
    /\ old_index' = IF lastOp = "list_set" THEN old_index ELSE None
    /\ lastArg' = 0
    /\ UNCHANGED <<list, fallback_index, get_position>>

\* the watcher's callback runs: set(index.get())
watch ==
    /\ pc = "run"
    /\ pending
    /\ pending' = FALSE
    /\ set_body(index, FALSE)
    /\ lastOp' = "watch"
    /\ old_index' = IF lastOp = "list_set" THEN old_index ELSE None
    /\ lastArg' = 0
    /\ UNCHANGED <<list, fallback_index, get_position>>

\* ------------------------------------------------------------ specification
Next ==
    \/ \E v \in Values : set_state(v) /\ UNCHANGED <<cycleHist, pairHist, valueHist, watchHist>>
    \/ \E i \in Indices : set(i) /\ UNCHANGED <<cycleHist, pairHist, valueHist, watchHist>>
    \/ \E d \in Deltas : shift(d) /\ UNCHANGED <<cycleHist, pairHist, valueHist, watchHist>>
    \/ next /\ UNCHANGED <<cycleHist, pairHist, valueHist, watchHist>>
    \/ prev /\ UNCHANGED <<cycleHist, pairHist, valueHist, watchHist>>
    \/ \E l \in Lists : list_set(l) /\ UNCHANGED <<cycleHist, pairHist, valueHist, watchHist>>
    \/ watch /\ UNCHANGED <<cycleHist, pairHist, valueHist, watchHist>>

Spec == Init /\ [][Next]_vars
\* ------------------------------------- next() called len(list) times in a row
InitCycle ==
    /\ \/ \E l \in Lists :
            /\ use_cycle_list(l)
            /\ lastOp = "use_cycle_list"
            /\ given = None
       \/ \E l \in Lists, options \in AllOptions :
            /\ use_cycle_list_with_options(l, options)
            /\ lastOp = "use_cycle_list_with_options"
            /\ given = options.initial_value
    /\ v0 = state
    /\ nexts = 0
    /\ origin = NoValue
    /\ back = FALSE
    /\ seen = {}
    /\ by_caller = FALSE
    /\ unserved = 0
    /\ served = 0
    /\ wrote = NoValue

NextCycle ==
    /\ nexts < Len(list)
    /\ next
    /\ nexts' = nexts + 1
    /\ UNCHANGED <<v0, given, pairHist, valueHist, watchHist>>

SpecCycle == InitCycle /\ [][NextCycle]_vars

\* ------------------------------------------- shift(delta) then shift(-delta)
PairOff == origin' = NoValue /\ back' = FALSE

PairShift(d) ==
    /\ shift(d)
    /\ IF lastOp = "shift" /\ lastArg = 0 - d /\ origin # NoValue /\ ~back
       THEN back' = TRUE /\ origin' = origin
       ELSE back' = FALSE /\ origin' = state

NextPair ==
    \/ \E v \in Values : set_state(v) /\ PairOff /\ UNCHANGED <<cycleHist, valueHist, watchHist>>
    \/ \E i \in Indices : set(i) /\ PairOff /\ UNCHANGED <<cycleHist, valueHist, watchHist>>
    \/ \E d \in Deltas : PairShift(d) /\ UNCHANGED <<cycleHist, valueHist, watchHist>>
    \/ next /\ PairOff /\ UNCHANGED <<cycleHist, valueHist, watchHist>>
    \/ prev /\ PairOff /\ UNCHANGED <<cycleHist, valueHist, watchHist>>
    \/ \E l \in Lists : list_set(l) /\ PairOff /\ UNCHANGED <<cycleHist, valueHist, watchHist>>
    \/ watch /\ PairOff /\ UNCHANGED <<cycleHist, valueHist, watchHist>>

SpecPair == Init /\ [][NextPair]_vars

\* ------------------------------------------- where the values of state come from
\* the list after its owner pushes, removes or replaces one element
Edits(l) ==
    {Append(l, v) : v \in IF Len(l) < MaxLen THEN Values ELSE {}}
    \cup {SubSeq(l, 1, i - 1) \o SubSeq(l, i + 1, Len(l)) : i \in 1..Len(l)}
    \cup {[l EXCEPT ![i] = v] : i \in 1..Len(l), v \in Values}

HistoryIndices == 0..MaxLen
HistoryDeltas == {0 - 2, 2, I64Max}

InitHistory ==
    /\ \/ \E l \in Lists :
            /\ use_cycle_list(l)
            /\ lastOp = "use_cycle_list"
            /\ seen = Range(l)
            /\ by_caller = FALSE
       \/ \E l \in Lists, options \in AllOptions :
            /\ use_cycle_list_with_options(l, options)
            /\ lastOp = "use_cycle_list_with_options"
            /\ seen = Range(l)
            /\ by_caller = (options.initial_value # None)
    /\ v0 = NoValue
    /\ nexts = 0
    /\ given = None
    /\ origin = NoValue
    /\ back = FALSE
    /\ unserved = 0
    /\ served = 0
    /\ wrote = NoValue

\* a completed call of set wrote an element of the list; a panic wrote nothing
FromList == by_caller' = IF pc' = "run" THEN FALSE ELSE by_caller

NextHistory ==
    \/ \E v \in Values :
        set_state(v) /\ by_caller' = TRUE /\ UNCHANGED <<seen, cycleHist, pairHist, watchHist>>
    \/ \E i \in HistoryIndices :
        set(i) /\ FromList /\ UNCHANGED <<seen, cycleHist, pairHist, watchHist>>
    \/ \E d \in HistoryDeltas :
        shift(d) /\ FromList /\ UNCHANGED <<seen, cycleHist, pairHist, watchHist>>
    \/ next /\ FromList /\ UNCHANGED <<seen, cycleHist, pairHist, watchHist>>
    \/ prev /\ FromList /\ UNCHANGED <<seen, cycleHist, pairHist, watchHist>>
    \/ \E l \in Edits(list) :
        list_set(l) /\ seen' = seen \cup Range(l) /\ UNCHANGED <<by_caller, cycleHist, pairHist, watchHist>>
    \/ watch /\ FromList /\ UNCHANGED <<seen, cycleHist, pairHist, watchHist>>

SpecHistory == InitHistory /\ [][NextHistory]_vars

\* ------------------------------------------- list changes and watcher runs
NotWatch == unserved' = unserved /\ served' = 0

\* a call that completes while the watcher is scheduled
CallHist ==
    /\ NotWatch
    /\ wrote' = IF pending /\ pc' = "run" THEN state' ELSE NoValue

\* the list's owner changes it: one more notification for the watcher
WatchedChange(l) ==
    /\ unserved < MaxChanges
    /\ list_set(l)
    /\ unserved' = unserved + 1
    /\ served' = 0
    /\ wrote' = NoValue

\* the executor runs the watcher's task: one run serves every change so far
WatchRun ==
    /\ watch
    /\ served' = unserved
    /\ unserved' = 0
    /\ wrote' = wrote

NextWatch ==
    \/ \E v \in Values :
        set_state(v) /\ NotWatch /\ wrote' = NoValue /\ UNCHANGED <<cycleHist, pairHist, valueHist>>
    \/ \E i \in HistoryIndices : set(i) /\ CallHist /\ UNCHANGED <<cycleHist, pairHist, valueHist>>
    \/ \E d \in HistoryDeltas : shift(d) /\ CallHist /\ UNCHANGED <<cycleHist, pairHist, valueHist>>
    \/ next /\ CallHist /\ UNCHANGED <<cycleHist, pairHist, valueHist>>
    \/ prev /\ CallHist /\ UNCHANGED <<cycleHist, pairHist, valueHist>>
    \/ \E l \in Edits(list) : WatchedChange(l) /\ UNCHANGED <<cycleHist, pairHist, valueHist>>
    \/ WatchRun /\ UNCHANGED <<cycleHist, pairHist, valueHist>>

SpecWatch == Init /\ [][NextWatch]_vars

\* the executor runs every task it was handed: a scheduled watcher runs
SpecWatchFair == SpecWatch /\ WF_vars(WatchRun /\ UNCHANGED <<cycleHist, pairHist, valueHist>>)

\* ------------------------------------------------------------------ claims
InRange(i, l) == i \in 0..(Len(l) - 1)
NoDuplicates(l) == \A i, j \in 1..Len(l) : l[i] = l[j] => i = j
Found == resolve(get_position, state, list) # None

\* C3 as stated: in every reachable state with a non-empty list the index is
\* in [0, len(list)), whatever the fallback index and the resolver.
C3_IndexAlwaysInRange ==
    (pc = "run" /\ Len(list) > 0) => InRange(index, list)

\* C3, amended: with a non-empty list, the index is in [0, len(list)) in
\* every state in which the resolver finds the current value (whatever the
\* fallback index is) or the fallback index is below the list's length.
C3_IndexInRangeWhenFoundOrFallbackFits ==
    (pc = "run" /\ Len(list) > 0 /\ (Found \/ fallback_index < Len(list)))
        => InRange(index, list)

\* the value is found at the last position although the fallback index is out of range
C3_Witness ==
    /\ pc = "run"
    /\ lastOp = "watch"
    /\ Len(list) = MaxLen
    /\ fallback_index >= Len(list)
    /\ Found
    /\ index = Len(list) - 1

C5_SetIndexModulo ==
    (lastOp = "set_index" /\ Len(list) > 0) =>
        LET n == Len(list)
        IN  /\ pc = "run"
            /\ state = list[(lastArg % n) + 1]
            /\ ret = state
            /\ state = list[set_position(lastArg % n, n) + 1]

\* set_index(i) with i past the end of the list wrapped to the last element
C5_Witness ==
    /\ lastOp = "set_index"
    /\ pc = "run"
    /\ Len(list) = 3
    /\ lastArg >= Len(list)
    /\ lastArg % 3 = 2
    /\ state = list[3]
    /\ list[3] # list[1]
    /\ ret = state

\* C6 as stated, for an index that is inside the list: shift(delta) on a
\* non-empty list of length n completes, sets state to list[(cur + delta) mod n]
\* and returns it, for every delta of the i64 range.
C6_ShiftMovesByDelta ==
    [][(lastOp' = "shift" /\ Len(list) > 0 /\ InRange(index, list)) =>
        /\ pc' = "run"
        /\ state' = list[((index + lastArg') % Len(list)) + 1]
        /\ ret' = state']_vars

\* C7 as stated: when the list becomes shorter than the index the value had
\* in the old list, the watcher sets state to the element of the new list at
\* (old index mod new length).
C7_WatchUsesOldIndex ==
    (/\ lastOp = "watch"
     /\ pc = "run"
     /\ old_index # None
     /\ InRange(old_index[1], list) = FALSE
     /\ Len(list) > 0)
        => state = list[(old_index[1] % Len(list)) + 1]

\* C7, amended: when the list changes, the watcher sets state to the element
\* of the new list at (index mod new length), where index is derived from
\* the current value and the NEW list: the value's position in the new list,
\* or the fallback index when the new list does not hold it.  In the example
\* Lizard is not in [Dog, Cat], the fallback index is 0, and state = Dog.
C7_WatchUsesNewIndex ==
    [][(lastOp' = "watch" /\ pc' = "run") =>
        state' = list[(index_of(state, list') % Len(list')) + 1]]_vars

\* the example: [Dog, Cat, Lizard] with Lizard at index 2 became [Dog, Cat]
C7_Witness ==
    /\ lastOp = "watch"
    /\ pc = "run"
    /\ old_index = Some(2)
    /\ list = <<"Dog", "Cat">>
    /\ state = "Dog"
    /\ fallback_index = 0
    /\ get_position = "position"

\* C8: use_cycle_list on a non-empty list yields state = the first element;
\* a prev() right after it wraps to the last element; next() from the last
\* position (index = len - 1) wraps to the first element.
C8_DefaultsAndWrap ==
    /\ [](lastOp = "use_cycle_list" /\ Len(list) > 0 =>
            pc = "run" /\ state = list[1] /\ index = 0)
    /\ [][/\ (lastOp = "use_cycle_list" /\ lastOp' = "prev") =>
                pc' = "run" /\ state' = list[Len(list)]
          /\ (lastOp' = "next" /\ Len(list) > 0 /\ index = Len(list) - 1) =>
                pc' = "run" /\ state' = list[1]]_vars

\* prev() wrapped from the first to the last of three different elements
C8_Witness ==
    /\ lastOp = "prev"
    /\ pc = "run"
    /\ Len(list) = 3
    /\ NoDuplicates(list)
    /\ fallback_index = 0
    /\ get_position = "position"
    /\ state = list[3]

\* C9: right after set_index, shift, next or prev completes, and right after
\* the watcher has run, state is an element of the current list.
C9_StateInListAfterOperation ==
    (lastOp \in {"set_index", "shift", "next", "prev", "watch"} /\ pc = "run")
        => state \in Range(list)

\* the watcher replaced a value the new list does not hold, with an
\* out-of-range fallback index
C9_Witness ==
    /\ lastOp = "watch"
    /\ pc = "run"
    /\ old_index # None
    /\ fallback_index >= Len(list)
    /\ get_position = "none"
    /\ state \in Range(list)
\* C1 as stated, with the default resolver: for every non-empty list and
\* every initial value v0 in it, construction followed by len(list) calls of
\* next() leaves state = v0.
C1_FullCycle ==
    (/\ nexts = Len(list)
     /\ Len(list) > 0
     /\ v0 \in Range(list)
     /\ get_position = "position")
        => (pc = "run" /\ state = v0)

\* C1, amended: with the default resolver, for every non-empty list WITHOUT
\* DUPLICATE ELEMENTS and every initial value v0 in it, construction
\* followed by len(list) calls of next() leaves state = v0.
C1_FullCycleNoDuplicates ==
    (/\ nexts = Len(list)
     /\ Len(list) > 0
     /\ v0 \in Range(list)
     /\ NoDuplicates(list)
     /\ get_position = "position")
        => (pc = "run" /\ state = v0)

\* three calls of next() went round a list of three different values,
\* starting from the middle one
C1_Witness ==
    /\ nexts = 3
    /\ Len(list) = 3
    /\ NoDuplicates(list)
    /\ get_position = "position"
    /\ v0 = list[2]
    /\ state = v0
    /\ lastOp = "next"

\* C2 as stated, in its most favourable case (default resolver, no duplicate
\* elements, the value is in the list): shift(delta) followed by
\* shift(-delta) restores the value of state.
C2_RoundTrip ==
    (/\ back
     /\ get_position = "position"
     /\ NoDuplicates(list)
     /\ origin \in Range(list))
        => (pc = "run" /\ state = origin)

\* C10 as stated: state is always a value that was an element of the list at
\* some point.
C10_StateWasInList ==
    pc = "run" => state \in seen

\* C10, amended: state is always a value that was an element of the list at
\* some point, or a value a caller wrote to it (as initial_value or through
\* set_state).
C10_StateWasInListOrSupplied ==
    pc = "run" => (by_caller \/ state \in seen)

\* state is a value the list held earlier and no longer holds, and that no
\* caller wrote
C10_Witness ==
    /\ pc = "run"
    /\ lastOp = "list_set"
    /\ state \in seen
    /\ ~by_caller
    /\ state \notin Range(list)
Calls == {"set_index", "shift", "next", "prev"}
Constructors == {"use_cycle_list", "use_cycle_list_with_options"}

\* C11: set_index, shift, next or prev called while the list is empty ends
\* in the fatal error, and the failed call leaves state as it was.
C11_EmptyListFaultsBeforeWrite ==
    [][(lastOp' \in Calls /\ Len(list) = 0) =>
        (pc' = "panic" /\ state' = state /\ ret' = NoValue)]_vars

\* prev() faulted on an empty list and the supplied initial value is still the state
C11_Witness ==
    /\ lastOp = "prev"
    /\ pc = "panic"
    /\ Len(list) = 0
    /\ state \in Values

\* C12 as stated, for the operations it names: set_state, a change of the
\* list and the watcher's resynchronization complete without a fault.
C12_NoOtherFault ==
    lastOp \in {"set_state", "list_set", "watch"} => pc = "run"
\* C13: construction fails fatally exactly when no initial value is supplied
\* and the list is empty; with an initial value it succeeds, also on an
\* empty list, and state is the supplied value.
C13_ConstructionFault ==
    nexts = 0 =>
        /\ pc = "panic" <=> (given = None /\ Len(list) = 0)
        /\ given # None => state = given[1]
        /\ (given = None /\ Len(list) > 0) => state = list[1]

\* constructed on an empty list with a supplied initial value
C13_Witness ==
    /\ nexts = 0
    /\ lastOp = "use_cycle_list_with_options"
    /\ Len(list) = 0
    /\ given = Some("Cat")
    /\ state = "Cat"
    /\ pc = "run"
\* C14 as stated (a later set_state counted among the calls that end it):
\* after set_state to a value that is not in the list, index = fallback_index
\* until the next set_state, set_index, shift, next, prev or list change.
C14_FallbackStaysUntilCall ==
    [][(lastOp = "set_state" /\ ~Found /\ pc' = "run" /\ index' # fallback_index)
        => lastOp' \in (Calls \cup {"set_state", "list_set"})]_vars

\* C14, amended: whenever the resolver yields no position index equals
\* fallback_index; with a resolver that always returns None that is every
\* state; after set_state to a value that is not in the list (default
\* resolver) index = fallback_index, until the next set_state, set_index,
\* shift, next, prev or list change, OR UNTIL THE WATCHER RUNS, when a list
\* change before the set_state left it scheduled: it sets state to
\* list[fallback_index mod len].
C14_FallbackPolicy ==
    /\ [](~Found => index = fallback_index)
    /\ [](get_position = "none" => index = fallback_index)
    /\ []((lastOp = "set_state" /\ state \notin Range(list)) => index = fallback_index)
    /\ [][(lastOp = "set_state" /\ ~Found /\ pc' = "run" /\ index' # fallback_index)
            => \/ lastOp' \in (Calls \cup {"set_state", "list_set"})
               \/ /\ lastOp' = "watch"
                  /\ pending
                  /\ state' = list[(fallback_index % Len(list)) + 1]]_vars

\* set_state wrote a value the list does not hold: index is the fallback index 1
C14_Witness ==
    /\ lastOp = "set_state"
    /\ pc = "run"
    /\ get_position = "position"
    /\ Len(list) = 2
    /\ state \notin Range(list)
    /\ fallback_index = 1
    /\ index = 1
\* C15 as stated: the watcher runs exactly once for each list change.
C15_OneRunPerChange ==
    lastOp = "watch" => served = 1

\* C15, amended: the watcher is not scheduled by construction nor by a
\* change of state alone; it is scheduled exactly while list changes are
\* unserved, and ONE run serves EVERY list change made since the last run
\* (at most one run per change, not exactly one); the run reads the index
\* derived from the new list.
C15_WatcherRuns ==
    /\ [](lastOp \in Constructors => ~pending)
    /\ [](pc = "run" => (pending <=> unserved > 0))
    /\ [](lastOp = "watch" => (served >= 1 /\ ~pending))
    /\ [][lastOp' \in (Calls \cup {"set_state"}) => pending' = pending]_vars
    /\ [][(lastOp' = "watch" /\ pc' = "run") =>
            state' = list[(index_of(state, list') % Len(list')) + 1]]_vars

\* one run of the watcher served two list changes
C15_Witness ==
    /\ lastOp = "watch"
    /\ pc = "run"
    /\ served = 2
    /\ ~pending
\* C16: shift reads the index resolved from the latest state and the latest
\* list: after set_state(v) with v in the list next() moves to the element
\* after v's position; a shift issued after a list change and before the
\* watcher has run resolves the current value against the new list.
C16_ShiftReadsCurrentIndex ==
    [][/\ (/\ lastOp = "set_state"
           /\ get_position = "position"
           /\ state \in Range(list)
           /\ lastOp' = "next")
            => /\ pc' = "run"
               /\ state' = list[((position(state, list)[1] + 1) % Len(list)) + 1]
       /\ (pending /\ lastOp' = "shift" /\ pc' = "run")
            => state' = list[set_position(
                    shift_index(index_of(state, list), lastArg', Len(list)),
                    Len(list)) + 1]
       /\ (/\ pending
           /\ lastOp' = "shift"
           /\ pc' = "run"
           /\ get_position = "position"
           /\ state \in Range(list)
           /\ ~Overflows(index, lastArg'))
            => state' = list[((position(state, list)[1] + lastArg') % Len(list)) + 1]
      ]_vars

\* shift(1) ran between a list change and the watcher's run
C16_Witness ==
    /\ lastOp = "shift"
    /\ lastArg = 1
    /\ pc = "run"
    /\ pending
    /\ get_position = "position"
    /\ Len(list) = 3
    /\ NoDuplicates(list)
    /\ state = list[3]
\* C17: with the default resolver, whenever state is an element of the list,
\* index is the smallest position p with list[p] = state, so list[index] =
\* state; after set_index(i) on a list without duplicates index = i mod len.
C17_IndexIsFirstPosition ==
    (pc = "run" /\ get_position = "position") =>
        /\ state \in Range(list) =>
            /\ InRange(index, list)
            /\ list[index + 1] = state
            /\ \A q \in 0..(index - 1) : list[q + 1] # state
        /\ (lastOp = "set_index" /\ NoDuplicates(list)) =>
            index = lastArg % Len(list)

\* the value occurs twice and index is its first position; and set_index(5)
\* on three different values gave index 2
C17_Witness ==
    /\ pc = "run"
    /\ get_position = "position"
    /\ lastOp = "set_index"
    /\ Len(list) = 3
    /\ \/ /\ list[1] # list[2]
          /\ list[2] = list[3]
          /\ state = list[3]
          /\ index = 1
          /\ lastArg = 2
       \/ /\ NoDuplicates(list)
          /\ lastArg = 5
          /\ index = 2

\* C18: with the default resolver, if the list changes and the current value
\* is an element of the new non-empty list, the watcher leaves state as it
\* is; only a value that is absent from the new list is replaced, by
\* list[fallback_index mod new length].
C18_WatchKeepsPresentValue ==
    [][(lastOp' = "watch" /\ get_position = "position" /\ Len(list) > 0) =>
        /\ pc' = "run"
        /\ list' = list
        /\ IF state \in Range(list)
           THEN state' = state
           ELSE state' = list[(fallback_index % Len(list)) + 1]]_vars

\* the list was reordered, the value moved from index 0 to index 2 and the
\* watcher kept it
C18_Witness ==
    /\ lastOp = "watch"
    /\ pc = "run"
    /\ get_position = "position"
    /\ old_index = Some(0)
    /\ Len(list) = 3
    /\ index = 2
    /\ fallback_index = 1
    /\ list[2] # state

\* C20: with the default resolver and a non-empty list, when set_index,
\* shift, next or prev completes after a list change and before the
\* watcher's run, the watcher's run leaves state as that call wrote it.
C20_WatchKeepsCallResult ==
    (lastOp = "watch" /\ wrote # NoValue /\ get_position = "position")
        => (pc = "run" /\ state = wrote /\ ~pending)

\* the watcher ran after prev() and kept what prev() wrote, which is not the
\* element at the fallback index
C20_Witness ==
    /\ lastOp = "watch"
    /\ pc = "run"
    /\ served = 1
    /\ wrote # NoValue
    /\ state = wrote
    /\ get_position = "position"
    /\ fallback_index = 1
    /\ Len(list) = 3
    /\ state # list[2]
\* C19: the watcher's own write to state does not schedule it again; a
\* scheduled watcher runs (or the program has stopped with a fatal error),
\* after which none is pending; and with the default resolver a further run
\* on the same list would write the value state already has.
C19_WatcherQuiesces ==
    /\ [][lastOp' = "watch" => ~pending']_vars
    /\ pending ~> (~pending \/ pc = "panic")
    /\ []((lastOp = "watch" /\ pc = "run" /\ get_position = "position")
            => list[set_position(index, Len(list)) + 1] = state)

\* the watcher has run after two list changes, replaced the value, and
\* nothing is pending
C19_Witness ==
    /\ lastOp = "watch"
    /\ pc = "run"
    /\ ~pending
    /\ served = 2
    /\ get_position = "position"
    /\ fallback_index = 1
    /\ Len(list) = 2
    /\ state = list[2]
    /\ index = 1
====
